---- MODULE Spec2Model ----
(***************************************************************************)
(* Timing scoring engine of garantis-ai-agents (src/scoring).              *)
(*                                                                         *)
(* calculate_score_v3 maps an LLMResponseV3 (the 5-node assessment) and a  *)
(* reference date to a ScoringResult.  The module models the assessment as *)
(* a record, the date parser on character sequences, the two path scorers  *)
(* (5A substitution, 5B constitution) and the top-level decision engine.   *)
(*                                                                         *)
(* Representation:                                                         *)
(*   - Optional[T] is a sequence of length 0 (None) or 1 (<<value>>);      *)
(*   - a Python str that is parsed (a marker date) is a sequence of        *)
(*     one-character strings, other strings are TLA+ strings;              *)
(*   - datetime.date is a record [year, month, day];                       *)
(*   - the float grave_multiplier is kept in hundredths (100 = 1.0,        *)
(*     75 = 0.75), both exactly representable in binary floating point;    *)
(*   - free-text fields the engine never reads (reasoning, evento,         *)
(*     descricao, evidence, resumo) are left out of the records.           *)
(***************************************************************************)
EXTENDS Integers, Sequences, FiniteSets, TLC

VARIABLES
    response,     \* the LLMResponseV3 handed to the engine
    today,        \* the `today` argument of the call (None when omitted)
    clock,        \* the process-wide calendar date, what date.today() returns
    result,       \* Optional[ScoringResult]: None before the call returns
    returned_at,  \* which return statement of calculate_score_v3 produced result
    analyze_response, \* Optional[AnalyzeResponse]: what /timing/analyze answered
    calls,        \* the invocations made so far, in order, with what they returned
    batch         \* the /timing/analyze-batch request in progress and its locals

vars == <<response, today, clock, result, returned_at, analyze_response, calls, batch>>

None == <<>>
Some(x) == <<x>>

(***************************************************************************)
(* datetime.date                                                           *)
(***************************************************************************)

IsLeap(year) == year % 4 = 0 /\ (year % 100 # 0 \/ year % 400 = 0)

DaysInMonth(year, month) ==
    IF month = 2 THEN (IF IsLeap(year) THEN 29 ELSE 28)
    ELSE IF month \in {4, 6, 9, 11} THEN 30 ELSE 31

DaysBeforeYear(year) ==
    LET y == year - 1 IN y * 365 + (y \div 4) - (y \div 100) + (y \div 400)

RECURSIVE DaysBeforeMonth(_, _)
DaysBeforeMonth(year, month) ==
    IF month = 1 THEN 0
    ELSE DaysBeforeMonth(year, month - 1) + DaysInMonth(year, month - 1)

ToOrdinal(d) == DaysBeforeYear(d.year) + DaysBeforeMonth(d.year, d.month) + d.day

\* date(year, month, day): the date, or None where the constructor raises ValueError
MakeDate(year, month, day) ==
    IF /\ 1 <= year /\ year <= 9999
       /\ 1 <= month /\ month <= 12
       /\ 1 <= day /\ day <= DaysInMonth(year, month)
    THEN Some([year |-> year, month |-> month, day |-> day])
    ELSE None

(***************************************************************************)
(* int(str) on a character sequence                                        *)
(***************************************************************************)

Digits == <<"0", "1", "2", "3", "4", "5", "6", "7", "8", "9">>
DigitChars == {Digits[i] : i \in 1..10}
DigitValue(c) ==
    CASE c = "0" -> 0 [] c = "1" -> 1 [] c = "2" -> 2 [] c = "3" -> 3 [] c = "4" -> 4
      [] c = "5" -> 5 [] c = "6" -> 6 [] c = "7" -> 7 [] c = "8" -> 8 [] c = "9" -> 9
Whitespace == {" "}

RECURSIVE LStrip(_)
LStrip(s) == IF s # <<>> /\ Head(s) \in Whitespace THEN LStrip(Tail(s)) ELSE s

RECURSIVE RStrip(_)
RStrip(s) ==
    IF s # <<>> /\ s[Len(s)] \in Whitespace THEN RStrip(SubSeq(s, 1, Len(s) - 1)) ELSE s

\* digits with single underscores between them, as int() accepts
RECURSIVE IsDigitString(_)
IsDigitString(s) ==
    /\ s # <<>>
    /\ Head(s) \in DigitChars
    /\ \/ Len(s) = 1
       \/ IsDigitString(Tail(s))
       \/ Len(s) >= 3 /\ s[2] = "_" /\ IsDigitString(SubSeq(s, 3, Len(s)))

RECURSIVE DigitsValue(_, _)
DigitsValue(s, acc) ==
    IF s = <<>> THEN acc
    ELSE IF Head(s) = "_" THEN DigitsValue(Tail(s), acc)
    ELSE DigitsValue(Tail(s), acc * 10 + DigitValue(Head(s)))

\* int(s): the integer, or None where int() raises ValueError
PyInt(s) ==
    LET t == RStrip(LStrip(s))
        signed == t # <<>> /\ Head(t) \in {"+", "-"}
        body == IF signed THEN Tail(t) ELSE t
    IN  IF ~IsDigitString(body) THEN None
        ELSE IF signed /\ Head(t) = "-" THEN Some(0 - DigitsValue(body, 0))
        ELSE Some(DigitsValue(body, 0))

\* str.split(sep): the pieces between the separators, empty pieces included
RECURSIVE SplitAcc(_, _, _, _)
SplitAcc(s, sep, cur, acc) ==
    IF s = <<>> THEN Append(acc, cur)
    ELSE IF Head(s) = sep THEN SplitAcc(Tail(s), sep, <<>>, Append(acc, cur))
    ELSE SplitAcc(Tail(s), sep, Append(cur, Head(s)), acc)

Split(s, sep) == SplitAcc(s, sep, <<>>, <<>>)

(***************************************************************************)
(* scoring/temporal.py                                                     *)
(***************************************************************************)

parse_date(date_str) ==
    IF date_str = <<>> THEN None
    ELSE LET parts == Split(date_str, "/") IN
         IF Len(parts) # 3 THEN None
         ELSE LET day == PyInt(parts[1])
                  month == PyInt(parts[2])
                  year == PyInt(parts[3])
              IN  IF day = None \/ month = None \/ year = None THEN None
                  ELSE MakeDate(year[1], month[1], day[1])

diff_in_days(date1, date2) == ToOrdinal(date1) - ToOrdinal(date2)

\* a reference date that is always read from the clock, whatever is passed
EffectiveTodayClockOnly(today_arg, clock_now) == clock_now

\* `today or date.today()`: a date object is always truthy
EffectiveToday(today_arg, clock_now) ==
    IF today_arg # None THEN today_arg[1] ELSE clock_now

\* calculate_temporal_data that gives up only when both dates are bad, and
\* otherwise uses the good date for both offsets
calculate_temporal_data_either(resp, today_arg, clock_now) ==
    LET ref == EffectiveToday(today_arg, clock_now)
        marcos == resp.node_3_marcos_temporais
    IN  IF marcos = None THEN None
        ELSE LET p == parse_date(marcos[1].marco_primario.data)
                 r == parse_date(marcos[1].marco_mais_recente.data)
             IN  IF p = None /\ r = None THEN None
                 ELSE Some([dias_desde_marco_primario |->
                                diff_in_days(ref, IF p # None THEN p[1] ELSE r[1]),
                            dias_desde_marco_mais_recente |->
                                diff_in_days(ref, IF r # None THEN r[1] ELSE p[1])])

calculate_temporal_data(resp, today_arg, clock_now) ==
    LET ref == EffectiveToday(today_arg, clock_now)
        marcos == resp.node_3_marcos_temporais
    IN  IF marcos = None THEN None
        ELSE LET marco_primario_date == parse_date(marcos[1].marco_primario.data)
                 marco_mais_recente_date == parse_date(marcos[1].marco_mais_recente.data)
             IN  IF marco_primario_date = None \/ marco_mais_recente_date = None
                 THEN None
                 ELSE Some([dias_desde_marco_primario |->
                                diff_in_days(ref, marco_primario_date[1]),
                            dias_desde_marco_mais_recente |->
                                diff_in_days(ref, marco_mais_recente_date[1])])

(***************************************************************************)
(* scoring/types.py, scoring/calculator.py: constants                      *)
(***************************************************************************)

TimingBase == {"AGORA_CONSTITUICAO", "AGORA_SUBSTITUICAO", "ACOMPANHAR", "PASSOU"}

BASE_SCORES ==
    [t \in TimingBase |->
        CASE t = "AGORA_CONSTITUICAO" -> 9
          [] t = "AGORA_SUBSTITUICAO" -> 9
          [] t = "ACOMPANHAR" -> 6
          [] t = "PASSOU" -> 2]

\* the substitutable types without the last one of the list
TIPOS_GARANTIA_SUBSTITUIVEIS_sem_caucao ==
    {"deposito_judicial", "penhora_dinheiro", "penhora_bens_moveis",
     "penhora_bens_imoveis", "fianca_bancaria"}

TIPOS_GARANTIA_SUBSTITUIVEIS ==
    {"deposito_judicial", "penhora_dinheiro", "penhora_bens_moveis",
     "penhora_bens_imoveis", "fianca_bancaria", "caucao_real"}

ScoringPathResult(timing, penalties, bonuses, grave_multiplier) ==
    [timing |-> timing, penalties |-> penalties, bonuses |-> bonuses,
     grave_multiplier |-> grave_multiplier]

\* the early return of both scorers: PASSOU, nothing recorded
PathPassou == ScoringPathResult("PASSOU", <<>>, <<>>, 100)

\* append tag to list when cond holds
AppendIf(cond, list, tag) == IF cond THEN Append(list, tag) ELSE list

(***************************************************************************)
(* Rules shared by the two scorers                                         *)
(***************************************************************************)

\* tem_contexto_especial that also counts the appellate phase
tem_contexto_especial_com_fase_recursal(contextos) ==
    \/ contextos.recuperacao_judicial
    \/ contextos.falencia_devedor
    \/ contextos.acordo_em_negociacao
    \/ contextos.processo_suspenso
    \/ contextos.fase_recursal

tem_contexto_especial(contextos) ==
    \/ contextos.recuperacao_judicial
    \/ contextos.falencia_devedor
    \/ contextos.acordo_em_negociacao
    \/ contextos.processo_suspenso

\* the special-context block that records the penalty and keeps the verdict
ContextoEspecialStep_sem_rebaixar(st, contextos, agora) ==
    IF tem_contexto_especial(contextos)
    THEN [st EXCEPT !.penalties = Append(@, "contexto_especial_presente")]
    ELSE st

\* the special-context block: one penalty, AGORA of the path rebaixado
ContextoEspecialStep(st, contextos, agora) ==
    IF tem_contexto_especial(contextos)
    THEN [st EXCEPT !.penalties = Append(@, "contexto_especial_presente"),
                    !.timing = IF @ = agora THEN "ACOMPANHAR" ELSE @]
    ELSE st

\* passividade_historica with the threshold included
passividade_historica_from_365(temporal, variaveis) ==
    temporal.dias_desde_marco_primario >= 365 /\ variaveis.executado_demonstrou_passividade

passividade_historica(temporal, variaveis) ==
    temporal.dias_desde_marco_primario > 365 /\ variaveis.executado_demonstrou_passividade

\* the passivity block that lowers the multiplier and records nothing
PassividadeStep_sem_tag(st, temporal, variaveis) ==
    IF passividade_historica(temporal, variaveis)
    THEN [st EXCEPT !.grave_multiplier = 75]
    ELSE st

PassividadeStep(st, temporal, variaveis) ==
    IF passividade_historica(temporal, variaveis)
    THEN [st EXCEPT !.grave_multiplier = 75,
                    !.penalties = Append(@, "passividade_historica_cliente")]
    ELSE st

(***************************************************************************)
(* Scoring 5B (constituicao)                                               *)
(***************************************************************************)

\* Tabela5B whose first bucket includes day 15
Tabela5B_15_incluido(dias, ameaca) ==
    IF dias <= 15 THEN
        ScoringPathResult("AGORA_CONSTITUICAO", <<>>,
            AppendIf(ameaca, <<"marco_recente_15_dias">>, "ameaca_constricao_iminente"),
            100)
    ELSE IF dias < 60 THEN
        ScoringPathResult("AGORA_CONSTITUICAO", <<>>,
            AppendIf(ameaca, <<>>, "ameaca_constricao_iminente"), 100)
    ELSE IF dias < 90 THEN
        IF ameaca
        THEN ScoringPathResult("AGORA_CONSTITUICAO", <<>>,
                               <<"ameaca_constricao_iminente">>, 100)
        ELSE ScoringPathResult("ACOMPANHAR", <<"marco_acima_60_dias">>, <<>>, 100)
    ELSE
        IF ameaca
        THEN ScoringPathResult("AGORA_CONSTITUICAO", <<"marco_acima_90_dias">>,
                               <<"ameaca_constricao_iminente">>, 100)
        ELSE ScoringPathResult("ACOMPANHAR",
                 AppendIf(dias > 180, <<"marco_acima_90_dias">>, "marco_acima_180_dias"),
                 <<>>, 100)

\* Tabela5B whose active window includes day 60
Tabela5B_60_incluido(dias, ameaca) ==
    IF dias < 15 THEN
        ScoringPathResult("AGORA_CONSTITUICAO", <<>>,
            AppendIf(ameaca, <<"marco_recente_15_dias">>, "ameaca_constricao_iminente"),
            100)
    ELSE IF dias <= 60 THEN
        ScoringPathResult("AGORA_CONSTITUICAO", <<>>,
            AppendIf(ameaca, <<>>, "ameaca_constricao_iminente"), 100)
    ELSE IF dias < 90 THEN
        IF ameaca
        THEN ScoringPathResult("AGORA_CONSTITUICAO", <<>>,
                               <<"ameaca_constricao_iminente">>, 100)
        ELSE ScoringPathResult("ACOMPANHAR", <<"marco_acima_60_dias">>, <<>>, 100)
    ELSE
        IF ameaca
        THEN ScoringPathResult("AGORA_CONSTITUICAO", <<"marco_acima_90_dias">>,
                               <<"ameaca_constricao_iminente">>, 100)
        ELSE ScoringPathResult("ACOMPANHAR",
                 AppendIf(dias > 180, <<"marco_acima_90_dias">>, "marco_acima_180_dias"),
                 <<>>, 100)

\* Tabela5B that records the 180-day penalty under a threat too
Tabela5B_180_com_ameaca(dias, ameaca) ==
    IF dias < 15 THEN
        ScoringPathResult("AGORA_CONSTITUICAO", <<>>,
            AppendIf(ameaca, <<"marco_recente_15_dias">>, "ameaca_constricao_iminente"),
            100)
    ELSE IF dias < 60 THEN
        ScoringPathResult("AGORA_CONSTITUICAO", <<>>,
            AppendIf(ameaca, <<>>, "ameaca_constricao_iminente"), 100)
    ELSE IF dias < 90 THEN
        IF ameaca
        THEN ScoringPathResult("AGORA_CONSTITUICAO", <<>>,
                               <<"ameaca_constricao_iminente">>, 100)
        ELSE ScoringPathResult("ACOMPANHAR", <<"marco_acima_60_dias">>, <<>>, 100)
    ELSE
        IF ameaca
        THEN ScoringPathResult("AGORA_CONSTITUICAO",
                 AppendIf(dias > 180, <<"marco_acima_90_dias">>, "marco_acima_180_dias"),
                 <<"ameaca_constricao_iminente">>, 100)
        ELSE ScoringPathResult("ACOMPANHAR",
                 AppendIf(dias > 180, <<"marco_acima_90_dias">>, "marco_acima_180_dias"),
                 <<>>, 100)

\* the decision table on dias (days since the most recent marker) and ameaca
Tabela5B(dias, ameaca) ==
    IF dias < 15 THEN
        ScoringPathResult("AGORA_CONSTITUICAO", <<>>,
            AppendIf(ameaca, <<"marco_recente_15_dias">>, "ameaca_constricao_iminente"),
            100)
    ELSE IF dias < 60 THEN
        ScoringPathResult("AGORA_CONSTITUICAO", <<>>,
            AppendIf(ameaca, <<>>, "ameaca_constricao_iminente"), 100)
    ELSE IF dias < 90 THEN
        IF ameaca
        THEN ScoringPathResult("AGORA_CONSTITUICAO", <<>>,
                               <<"ameaca_constricao_iminente">>, 100)
        ELSE ScoringPathResult("ACOMPANHAR", <<"marco_acima_60_dias">>, <<>>, 100)
    ELSE
        IF ameaca
        THEN ScoringPathResult("AGORA_CONSTITUICAO", <<"marco_acima_90_dias">>,
                               <<"ameaca_constricao_iminente">>, 100)
        ELSE ScoringPathResult("ACOMPANHAR",
                 AppendIf(dias > 180, <<"marco_acima_90_dias">>, "marco_acima_180_dias"),
                 <<>>, 100)

\* the active-debtor bonus given only while the verdict is still AGORA
ExecutadoAtivoStep_so_agora(st, executado_ativo) ==
    [st EXCEPT !.bonuses = AppendIf(executado_ativo /\ st.timing = "AGORA_CONSTITUICAO",
                                    @, "executado_ativo")]

ExecutadoAtivoStep(st, executado_ativo) ==
    [st EXCEPT !.bonuses = AppendIf(executado_ativo, @, "executado_ativo")]

\* calculate_5b_scoring that tests processo_encerrado after the rules have run
calculate_5b_scoring_late_encerrado(resp, temporal) ==
    LET node5 == resp.node_5_analise_especifica
        details == IF node5 # None THEN node5[1].details_5b ELSE None
        marcos == resp.node_3_marcos_temporais
        variaveis == resp.variaveis_llm
    IN  IF details = None \/ marcos = None THEN PathPassou
        ELSE LET s1 == Tabela5B(temporal.dias_desde_marco_mais_recente,
                                details[1].ameaca_constricao_iminente)
                 s2 == ContextoEspecialStep(s1, marcos[1].contextos_especiais,
                                            "AGORA_CONSTITUICAO")
                 s3 == PassividadeStep(s2, temporal, variaveis)
                 s4 == ExecutadoAtivoStep(s3, details[1].executado_ativo)
             IN  IF details[1].processo_encerrado
                 THEN [s4 EXCEPT !.timing = "PASSOU"]
                 ELSE s4

calculate_5b_scoring(resp, temporal) ==
    LET node5 == resp.node_5_analise_especifica
        details == IF node5 # None THEN node5[1].details_5b ELSE None
        marcos == resp.node_3_marcos_temporais
        variaveis == resp.variaveis_llm
    IN  IF details = None \/ marcos = None THEN PathPassou
        ELSE IF details[1].processo_encerrado THEN PathPassou
        ELSE LET s1 == Tabela5B(temporal.dias_desde_marco_mais_recente,
                                details[1].ameaca_constricao_iminente)
                 s2 == ContextoEspecialStep(s1, marcos[1].contextos_especiais,
                                            "AGORA_CONSTITUICAO")
                 s3 == PassividadeStep(s2, temporal, variaveis)
             IN  ExecutadoAtivoStep(s3, details[1].executado_ativo)

(***************************************************************************)
(* Scoring 5A (substituicao)                                               *)
(***************************************************************************)

Tabela5A(tipo_garantia, garantia_onerosa) ==
    IF garantia_onerosa /\ tipo_garantia \in TIPOS_GARANTIA_SUBSTITUIVEIS
    THEN ScoringPathResult("AGORA_SUBSTITUICAO", <<>>,
                           <<"evidencia_direta_garantia_onerosa">>, 100)
    ELSE IF tipo_garantia = "indefinido"
    THEN ScoringPathResult("ACOMPANHAR", <<"tipo_garantia_desconhecido">>, <<>>, 100)
    ELSE ScoringPathResult("ACOMPANHAR", <<>>, <<>>, 100)

\* Node4Step that takes "no guarantee exists" as a reason to wait
Node4Step_nao_rebaixa(st, node4, variaveis) ==
    IF node4 = None THEN st
    ELSE LET p1 == IF node4[1].answer = "PROVAVELMENTE_SIM"
                   THEN Append(st.penalties, "garantia_provavel_nao_confirmada")
                   ELSE IF node4[1].answer = "INCERTO"
                   THEN Append(st.penalties, "garantia_incerta")
                   ELSE st.penalties
             p2 == AppendIf(node4[1].inference_basis = "silencio"
                                \/ variaveis.garantia_inferida_silencio,
                            p1, "garantia_inferida_silencio")
         IN  [st EXCEPT !.penalties = p2,
                        !.timing = IF node4[1].answer \in {"NÃO", "PROVAVELMENTE_NAO"}
                                   THEN "ACOMPANHAR" ELSE @]

\* Node4Step that records silence once for the inference basis and once more
\* for the auxiliary flag
Node4Step_silencio_each(st, node4, variaveis) ==
    IF node4 = None THEN st
    ELSE LET p1 == IF node4[1].answer = "PROVAVELMENTE_SIM"
                   THEN Append(st.penalties, "garantia_provavel_nao_confirmada")
                   ELSE IF node4[1].answer = "INCERTO"
                   THEN Append(st.penalties, "garantia_incerta")
                   ELSE st.penalties
             p2 == AppendIf(node4[1].inference_basis = "silencio",
                            p1, "garantia_inferida_silencio")
             p3 == AppendIf(variaveis.garantia_inferida_silencio,
                            p2, "garantia_inferida_silencio")
         IN  [st EXCEPT !.penalties = p3]

\* uncertainty about the existing guarantee: read only when node 4 is present
Node4Step(st, node4, variaveis) ==
    IF node4 = None THEN st
    ELSE LET p1 == IF node4[1].answer = "PROVAVELMENTE_SIM"
                   THEN Append(st.penalties, "garantia_provavel_nao_confirmada")
                   ELSE IF node4[1].answer = "INCERTO"
                   THEN Append(st.penalties, "garantia_incerta")
                   ELSE st.penalties
             p2 == AppendIf(node4[1].inference_basis = "silencio"
                                \/ variaveis.garantia_inferida_silencio,
                            p1, "garantia_inferida_silencio")
         IN  [st EXCEPT !.penalties = p2]

\* PenalidadesTemporais5A that records the older threshold first
PenalidadesTemporais5A_180_first(st, dias) ==
    LET p1 == AppendIf(dias > 180, st.penalties, "marco_acima_180_dias")
        p2 == AppendIf(dias > 90, p1, "marco_acima_90_dias")
    IN  [st EXCEPT !.penalties = p2]

\* PenalidadesTemporais5A with the thresholds included
PenalidadesTemporais5A_from_threshold(st, dias) ==
    LET p1 == AppendIf(dias >= 90, st.penalties, "marco_acima_90_dias")
        p2 == AppendIf(dias >= 180, p1, "marco_acima_180_dias")
    IN  [st EXCEPT !.penalties = p2]

PenalidadesTemporais5A(st, dias) ==
    LET p1 == AppendIf(dias > 90, st.penalties, "marco_acima_90_dias")
        p2 == AppendIf(dias > 180, p1, "marco_acima_180_dias")
    IN  [st EXCEPT !.penalties = p2]

\* calculate_5a_scoring that tests seguro_garantia after the rules have run
calculate_5a_scoring_late_seguro(resp, temporal) ==
    LET node5 == resp.node_5_analise_especifica
        details == IF node5 # None THEN node5[1].details_5a ELSE None
        marcos == resp.node_3_marcos_temporais
        variaveis == resp.variaveis_llm
        node4 == resp.node_4_garantia_existente
    IN  IF details = None \/ marcos = None THEN PathPassou
        ELSE LET s1 == Tabela5A(details[1].tipo_garantia, details[1].garantia_onerosa)
                 s2 == Node4Step(s1, node4, variaveis)
                 s3 == PenalidadesTemporais5A(s2, temporal.dias_desde_marco_mais_recente)
                 s4 == ContextoEspecialStep(s3, marcos[1].contextos_especiais,
                                            "AGORA_SUBSTITUICAO")
                 s5 == PassividadeStep(s4, temporal, variaveis)
             IN  IF details[1].tipo_garantia = "seguro_garantia"
                 THEN [s5 EXCEPT !.timing = "PASSOU"]
                 ELSE s5

calculate_5a_scoring(resp, temporal) ==
    LET node5 == resp.node_5_analise_especifica
        details == IF node5 # None THEN node5[1].details_5a ELSE None
        marcos == resp.node_3_marcos_temporais
        variaveis == resp.variaveis_llm
        node4 == resp.node_4_garantia_existente
    IN  IF details = None \/ marcos = None THEN PathPassou
        ELSE IF details[1].tipo_garantia = "seguro_garantia" THEN PathPassou
        ELSE LET s1 == Tabela5A(details[1].tipo_garantia, details[1].garantia_onerosa)
                 s2 == Node4Step(s1, node4, variaveis)
                 s3 == PenalidadesTemporais5A(s2, temporal.dias_desde_marco_mais_recente)
                 s4 == ContextoEspecialStep(s3, marcos[1].contextos_especiais,
                                            "AGORA_SUBSTITUICAO")
             IN  PassividadeStep(s4, temporal, variaveis)

(***************************************************************************)
(* Calculo principal V3                                                    *)
(***************************************************************************)

Min(a, b) == IF a < b THEN a ELSE b
Max(a, b) == IF a > b THEN a ELSE b

\* Clamp without the upper limit
ClampNoCeiling(x) == Max(0, x)

\* max(0, min(10, x))
Clamp(x) == Max(0, Min(10, x))

\* rounding to the nearest integer with ties away from zero
PyRoundHalfUp(num, den) == (2 * num + den) \div (2 * den)

\* round(num / den) of the built-in round(): nearest integer, ties to the even
\* one (num >= 0, den > 0; the quotient is exact in floating point)
PyRound(num, den) ==
    LET q == num \div den
        r == num % den
    IN  IF 2 * r < den THEN q
        ELSE IF 2 * r > den THEN q + 1
        ELSE IF q % 2 = 0 THEN q ELSE q + 1

ScoreBreakdown(timing_base, base, penalties, details, bonus, bonus_details, mult, final) ==
    [timing_base |-> timing_base, base |-> base,
     penalties |-> penalties, penalty_details |-> details,
     bonus |-> bonus, bonus_details |-> bonus_details,
     grave_multiplier |-> mult, final |-> final]

ScoringResult(score_breakdown, temporal_data) ==
    [score_breakdown |-> score_breakdown, temporal_data |-> temporal_data]

\* the breakdown of the short-circuits and fallbacks: the base score of the
\* timing, counters 0, the given penalty_details, multiplier 1.0
FixedBreakdown(timing, penalty_details) ==
    ScoreBreakdown(timing, BASE_SCORES[timing], 0, penalty_details, 0, <<>>, 100,
                   BASE_SCORES[timing])

\* FinalBreakdown with the bonuses left out of the sum
FinalBreakdownNoBonus(scoring_result) ==
    LET base == BASE_SCORES[scoring_result.timing]
        penalty_count == Len(scoring_result.penalties)
        bonus_count == Len(scoring_result.bonuses)
        intermediate == Clamp(base - penalty_count)
        final == PyRound(intermediate * scoring_result.grave_multiplier, 100)
    IN  ScoreBreakdown(scoring_result.timing, base, 0 - penalty_count,
                       scoring_result.penalties, bonus_count, scoring_result.bonuses,
                       scoring_result.grave_multiplier, final)

\* "Calcular score final": the breakdown of a path scorer's result
FinalBreakdown(scoring_result) ==
    LET base == BASE_SCORES[scoring_result.timing]
        penalty_count == Len(scoring_result.penalties)
        bonus_count == Len(scoring_result.bonuses)
        intermediate == Clamp(base - penalty_count + bonus_count)
        final == PyRound(intermediate * scoring_result.grave_multiplier, 100)
    IN  ScoreBreakdown(scoring_result.timing, base, 0 - penalty_count,
                       scoring_result.penalties, bonus_count, scoring_result.bonuses,
                       scoring_result.grave_multiplier, final)

\* Node1IsNao comparing with the unaccented tag
Node1IsNaoUnaccented(resp) == resp.node_1_plausibilidade.answer = "NAO"

Node1IsNao(resp) == resp.node_1_plausibilidade.answer = "NÃO"

\* Node2IsNao that exits only when there are no markers to score
Node2IsNaoWithoutMarkers(resp) ==
    /\ resp.node_2_materializacao # None
    /\ resp.node_2_materializacao[1].answer = "NÃO"
    /\ resp.node_3_marcos_temporais = None

Node2IsNao(resp) ==
    resp.node_2_materializacao # None /\ resp.node_2_materializacao[1].answer = "NÃO"

Returned(at, value) == [at |-> at, value |-> value]

\* FallbackResult that drops the temporal data, as the first fallback does
FallbackResultNoTemporal(penalty_detail, temporal_data) ==
    ScoringResult(FixedBreakdown("ACOMPANHAR", <<penalty_detail>>), None)

\* the ACOMPANHAR fallbacks, with their one diagnostic penalty_detail
FallbackResult(penalty_detail, temporal_data) ==
    ScoringResult(FixedBreakdown("ACOMPANHAR", <<penalty_detail>>), temporal_data)

\* "Determinar caminho (5A ou 5B)" and "Calcular score final"
DispatchNode5(resp, temporal_data) ==
    IF resp.node_5_analise_especifica = None
    THEN Returned("sem_node_5",
                  FallbackResult("Sem análise específica (node 5)", temporal_data))
    ELSE LET type_active == resp.node_5_analise_especifica[1].type_active IN
    IF type_active = "5A_SUBSTITUICAO"
    THEN Returned("scoring_5a",
             ScoringResult(FinalBreakdown(calculate_5a_scoring(resp, temporal_data[1])),
                           temporal_data))
    ELSE IF type_active = "5B_CONSTITUICAO"
    THEN Returned("scoring_5b",
             ScoringResult(FinalBreakdown(calculate_5b_scoring(resp, temporal_data[1])),
                           temporal_data))
    ELSE Returned("type_active_invalido",
                  FallbackResult("Tipo de análise inválido: " \o type_active,
                                 temporal_data))

\* calculate_score_v3 with the node 2 exit tested before the node 1 exit
calculate_score_v3_node_2_first(resp, today_arg, clock_now) ==
    IF Node2IsNao(resp)
    THEN Returned("node_2_nao", ScoringResult(FixedBreakdown("ACOMPANHAR", <<>>), None))
    ELSE IF Node1IsNao(resp)
    THEN Returned("node_1_nao", ScoringResult(FixedBreakdown("PASSOU", <<>>), None))
    ELSE LET temporal_data == calculate_temporal_data(resp, today_arg, clock_now) IN
    IF temporal_data = None
    THEN Returned("sem_dados_temporais",
                  FallbackResult("Sem dados temporais válidos", None))
    ELSE DispatchNode5(resp, temporal_data)

\* calculate_score_v3(response, today): the ScoringResult and the return
\* statement that produced it
calculate_score_v3(resp, today_arg, clock_now) ==
    IF Node1IsNao(resp)
    THEN Returned("node_1_nao", ScoringResult(FixedBreakdown("PASSOU", <<>>), None))
    ELSE IF Node2IsNao(resp)
    THEN Returned("node_2_nao", ScoringResult(FixedBreakdown("ACOMPANHAR", <<>>), None))
    ELSE LET temporal_data == calculate_temporal_data(resp, today_arg, clock_now) IN
    IF temporal_data = None
    THEN Returned("sem_dados_temporais",
                  FallbackResult("Sem dados temporais válidos", None))
    ELSE DispatchNode5(resp, temporal_data)

(***************************************************************************)
(* Inputs: the assessments and reference dates the engine is called with   *)
(***************************************************************************)

\* at most this many special contexts are detected in one assessment
MaxDetected == 2

\* the reference dates passed explicitly are RefDate and the RefSpan days after it
RefSpan == 1

RefDate == [year |-> 2024, month |-> 3, day |-> 10]

FromOrdinal(n) ==
    LET y == CHOOSE yy \in (RefDate.year - 3)..(RefDate.year + 2) :
                 DaysBeforeYear(yy) < n /\ n <= DaysBeforeYear(yy + 1)
        m == CHOOSE mm \in 1..12 :
                 /\ DaysBeforeMonth(y, mm) < n - DaysBeforeYear(y)
                 /\ n - DaysBeforeYear(y) <= DaysBeforeMonth(y, mm) + DaysInMonth(y, mm)
    IN  [year |-> y, month |-> m, day |-> n - DaysBeforeYear(y) - DaysBeforeMonth(y, m)]

PlusDays(d, k) == FromOrdinal(ToOrdinal(d) + k)

RefDates == {PlusDays(RefDate, k) : k \in 0..RefSpan}

\* date.today() of the process when the route runs
ClockDate == PlusDays(RefDate, RefSpan + 1)

\* n written with `width` digits
RECURSIVE Pad(_, _)
Pad(n, width) ==
    IF width = 0 THEN <<>> ELSE Append(Pad(n \div 10, width - 1), Digits[(n % 10) + 1])

\* a date as the assessment carries it: DD/MM/YYYY
FormatDate(d) == Pad(d.day, 2) \o <<"/">> \o Pad(d.month, 2) \o <<"/">> \o Pad(d.year, 4)

\* the marker date k days before RefDate
MarkerDate(k) == FormatDate(PlusDays(RefDate, 0 - k))

\* day offsets (from RefDate) around the thresholds of the rules: -1 is a
\* marker in the future
RecentOffsets == {-1, 14, 59, 89, 90, 180}
RecentOffsets5A == {14, 90, 180}
PrimaryOffsets == {364, 365}

\* date strings that are empty, of another shape, or no calendar date
BadDates ==
    { <<>>,
      <<"3", "1", "/", "0", "2", "/", "2", "0", "2", "4">>,
      <<"2", "0", "2", "4", "-", "0", "1", "-", "1", "5">>,
      <<"1", "5", "/", "0", "1">>,
      <<"a", "a", "/", "0", "1", "/", "2", "0", "2", "4">> }

\* date strings that are not zero-padded DD/MM/YYYY
LooseDates ==
    { <<"1", "/", "2", "/", "2", "0", "2", "4">>,
      <<"1", "5", "/", "0", "1", "/", "2", "4">>,
      <<" ", "5", "/", "0", "1", "/", "2", "0", "2", "4">>,
      <<"+", "5", "/", "0", "1", "/", "2", "0", "2", "4">> }

DateSample == BadDates \cup LooseDates \cup {MarkerDate(10)}

ContextNames ==
    {"processo_suspenso", "recuperacao_judicial", "acordo_em_negociacao",
     "fase_recursal", "multiplos_reus", "falencia_devedor"}

\* contextos_especiais with exactly the contexts of S detected
Contextos(S) == [c \in ContextNames |-> c \in S]

ContextosValues ==
    {Contextos(S) : S \in {T \in SUBSET ContextNames : Cardinality(T) <= MaxDetected}}

Node3(primario, recente, contextos) ==
    [marco_primario |-> [data |-> primario],
     marco_mais_recente |-> [data |-> recente, e_mesmo_que_primario |-> primario = recente],
     marco_renovacao |-> None,
     atividade_pos_marco |-> "rotineira",
     contextos_especiais |-> contextos]

GarantiaAnswer == {"SIM", "PROVAVELMENTE_SIM", "INCERTO", "PROVAVELMENTE_NAO", "NÃO"}
InferenceBasis == {"direta", "silencio", "ausencia_confirmada"}

Node4Values == [answer : GarantiaAnswer, inference_basis : InferenceBasis]

TipoGarantia ==
    {"deposito_judicial", "penhora_dinheiro", "penhora_bens_moveis",
     "penhora_bens_imoveis", "fianca_bancaria", "seguro_garantia",
     "hipoteca_judicial", "caucao_real", "indefinido", "outro"}

Details5A(tipo_garantia, garantia_onerosa) ==
    [tipo_garantia |-> tipo_garantia, data_oferecimento_garantia |-> None,
     garantia_onerosa |-> garantia_onerosa, is_candidate |-> "SIM"]

Details5B(ameaca, ativo, encerrado) ==
    [ameaca_constricao_iminente |-> ameaca, executado_ativo |-> ativo,
     processo_encerrado |-> encerrado, is_candidate |-> "SIM"]

Node5(type_active, details_5a, details_5b) ==
    [type_active |-> type_active, details_5a |-> details_5a, details_5b |-> details_5b]

VariaveisLLM(silencio, passividade) ==
    [garantia_inferida_silencio |-> silencio,
     tipo_garantia_desconhecido |-> FALSE,
     evidencia_direta_garantia_onerosa |-> FALSE,
     executado_demonstrou_passividade |-> passividade]

LLMResponseV3(node1, node2, node3, node4, node5, variaveis) ==
    [node_1_plausibilidade |-> [answer |-> node1],
     node_2_materializacao |-> node2,
     node_3_marcos_temporais |-> node3,
     node_4_garantia_existente |-> node4,
     node_5_analise_especifica |-> node5,
     variaveis_llm |-> variaveis]

\* node 5 values of every shape: absent, each path with its payload, a path
\* with only the other path's payload, and a type_active outside the schema's
\* Literal (an assessment built without validation; the engine tests for it)
Node5Sample ==
    LET a == Some(Details5A("fianca_bancaria", TRUE))
        b == Some(Details5B(FALSE, FALSE, FALSE))
    IN  { None,
          Some(Node5("5A_SUBSTITUICAO", a, None)),
          Some(Node5("5B_CONSTITUICAO", None, b)),
          Some(Node5("5A_SUBSTITUICAO", None, b)),
          Some(Node5("5B_CONSTITUICAO", a, None)),
          Some(Node5("5C_OUTRO", a, None)),
          Some(Node5("", None, b)) }

Node2Values == {None, Some([answer |-> "SIM"]), Some([answer |-> "NÃO"])}

PrimaryDates == {MarkerDate(k) : k \in PrimaryOffsets}
RecentDates == {MarkerDate(k) : k \in RecentOffsets}
RecentDates5A == {MarkerDate(k) : k \in RecentOffsets5A}

Node3Sample ==
    {None} \cup {Some(Node3(p, r, Contextos({}))) : p \in DateSample, r \in DateSample}

Node4Sample == {None, Some([answer |-> "INCERTO", inference_basis |-> "silencio"])}

Node4All == {None} \cup {Some(x) : x \in Node4Values}

\* every combination of the answers of nodes 1 and 2 with present, absent and
\* malformed later nodes
ExitAssessment(resp) ==
    \E n1 \in {"SIM", "NÃO"}, n2 \in Node2Values, n3 \in Node3Sample,
       n4 \in Node4Sample, n5 \in Node5Sample, v \in BOOLEAN :
        resp = LLMResponseV3(n1, n2, n3, n4, n5, VariaveisLLM(v, v))

\* the substitution path, every guarantee type and node 4 value, with no special
\* context or one
Assessment5A(resp) ==
    \E p \in PrimaryDates, r \in RecentDates5A,
       c \in {Contextos({}), Contextos({"recuperacao_judicial"})}, n4 \in Node4All,
       t \in TipoGarantia, o \in BOOLEAN, s \in BOOLEAN, v \in BOOLEAN :
        resp = LLMResponseV3("SIM", Some([answer |-> "SIM"]), Some(Node3(p, r, c)), n4,
                   Some(Node5("5A_SUBSTITUICAO", Some(Details5A(t, o)), None)),
                   VariaveisLLM(s, v))

\* the substitution path, every combination of special contexts, with one
\* guarantee type of each kind
Assessment5AContextos(resp) ==
    \E p \in PrimaryDates, r \in RecentDates5A, c \in ContextosValues, n4 \in Node4Sample,
       t \in {"fianca_bancaria", "seguro_garantia", "hipoteca_judicial", "indefinido"},
       o \in BOOLEAN, v \in BOOLEAN :
        resp = LLMResponseV3("SIM", Some([answer |-> "SIM"]), Some(Node3(p, r, c)), n4,
                   Some(Node5("5A_SUBSTITUICAO", Some(Details5A(t, o)), None)),
                   VariaveisLLM(FALSE, v))

\* the constitution path in full
Assessment5B(resp) ==
    \E p \in PrimaryDates, r \in RecentDates, c \in ContextosValues, n4 \in Node4Sample,
       a \in BOOLEAN, e \in BOOLEAN, x \in BOOLEAN, v \in BOOLEAN :
        resp = LLMResponseV3("SIM", Some([answer |-> "SIM"]), Some(Node3(p, r, c)), n4,
                   Some(Node5("5B_CONSTITUICAO", None, Some(Details5B(a, e, x)))),
                   VariaveisLLM(FALSE, v))

\* worked examples: both markers ten days old on the Constitution path, a most
\* recent marker a hundred days old, an onerous bank guarantee confirmed by
\* node 4, and a node 5 filled for the wrong path
ScenarioNode3(primario, recente) ==
    Some(Node3(MarkerDate(primario), MarkerDate(recente), Contextos({})))

Scenario5B(dias) ==
    LLMResponseV3("SIM", Some([answer |-> "SIM"]), ScenarioNode3(dias, dias), None,
        Some(Node5("5B_CONSTITUICAO", None, Some(Details5B(FALSE, FALSE, FALSE)))),
        VariaveisLLM(FALSE, FALSE))

Scenario5A(dias) ==
    LLMResponseV3("SIM", Some([answer |-> "SIM"]), ScenarioNode3(dias, dias),
        Some([answer |-> "SIM", inference_basis |-> "direta"]),
        Some(Node5("5A_SUBSTITUICAO", Some(Details5A("fianca_bancaria", TRUE)), None)),
        VariaveisLLM(FALSE, FALSE))

\* node 5 names the Substitution path and carries only the Constitution payload
ScenarioOtherPayload(dias) ==
    LLMResponseV3("SIM", Some([answer |-> "SIM"]), ScenarioNode3(dias, dias), None,
        Some(Node5("5A_SUBSTITUICAO", None, Some(Details5B(FALSE, FALSE, FALSE)))),
        VariaveisLLM(FALSE, FALSE))

\* the bank guaranty example as an assessment that says "not a candidate",
\* with a renewal marker, a posting date and the unused auxiliary flags set
Scenario5ANotCandidate(dias) ==
    LET base == Scenario5A(dias)
        node3 == base.node_3_marcos_temporais[1]
        node5 == base.node_5_analise_especifica[1]
        details == node5.details_5a[1]
    IN  [base EXCEPT
           !.node_3_marcos_temporais =
               Some([node3 EXCEPT !.marco_renovacao = Some([data |-> MarkerDate(dias)]),
                                  !.atividade_pos_marco = "relevante"]),
           !.node_5_analise_especifica =
               Some([node5 EXCEPT !.details_5a =
                   Some([details EXCEPT !.is_candidate = "NÃO",
                                        !.data_oferecimento_garantia = Some(MarkerDate(dias))])]),
           !.variaveis_llm.tipo_garantia_desconhecido = TRUE,
           !.variaveis_llm.evidencia_direta_garantia_onerosa = TRUE]

ScenarioAssessment(resp) ==
    resp \in {ScenarioOtherPayload(10), Scenario5B(10), Scenario5B(100), Scenario5A(10),
              Scenario5ANotCandidate(10)}

\* the worked examples as values: the bond example ten and a hundred days after
\* its markers, the bank guaranty example ten days after, and a marker dated
\* the day before the reference date
Bond10 == Scenario5B(10)

Bond100 == Scenario5B(100)

Guaranty10 == Scenario5A(10)

DayBefore == MarkerDate(1)

(***************************************************************************)
(* The calls                                                               *)
(***************************************************************************)

\* routes/timing.py: the label of the two-way AGORA split for older consumers
timing_base_to_legacy_constituicao_only(timing) ==
    IF timing = "AGORA_CONSTITUICAO" THEN "AGORA" ELSE timing

timing_base_to_legacy(timing) ==
    IF timing \in {"AGORA_CONSTITUICAO", "AGORA_SUBSTITUICAO"} THEN "AGORA" ELSE timing

generate_recomendacao(timing) ==
    CASE timing = "AGORA_CONSTITUICAO" ->
           "Oferecer seguro garantia para constituição de garantia"
      [] timing = "AGORA_SUBSTITUICAO" ->
           "Oferecer seguro garantia para substituição de garantia existente"
      [] timing = "ACOMPANHAR" ->
           "Monitorar processo para oportunidades futuras"
      [] OTHER -> "Encerrar acompanhamento - timing passou"

\* the fields of AnalyzeResponse that come from the scoring result; its
\* score_breakdown and temporal_data are those of `result`
AnalyzeResponse(scoring_result) ==
    [ timing_base        |-> scoring_result.score_breakdown.timing_base,
      score_final        |-> scoring_result.score_breakdown.final,
      diagnostico_timing |-> timing_base_to_legacy(scoring_result.score_breakdown.timing_base),
      score_oportunidade |-> scoring_result.score_breakdown.final,
      recomendacao_final |-> generate_recomendacao(scoring_result.score_breakdown.timing_base) ]

\* analyze_batch: the items of the request and the locals of the handler
Batch(items) ==
    [items |-> items, next |-> 1, results |-> <<>>, success_count |-> 0,
     error_count |-> 0, total_tokens |-> 0, total_cost |-> 0, returned |-> None]

Init ==
    /\ \/ ScenarioAssessment(response)
       \/ Assessment5B(response)
       \/ Assessment5A(response)
       \/ Assessment5AContextos(response)
       \/ ExitAssessment(response)
    /\ today = None
    /\ clock = ClockDate
    /\ result = None
    /\ returned_at = "pending"
    /\ analyze_response = None
    /\ calls = <<>>
    /\ batch = Batch(<<>>)

\* a caller that passes the reference date: calculate_score_v3(response, today)
CallWithDate ==
    /\ result = None
    /\ \E t \in RefDates :
          LET r == calculate_score_v3(response, Some(t), clock) IN
          /\ today' = Some(t)
          /\ result' = Some(r.value)
          /\ returned_at' = r.at
    /\ UNCHANGED <<response, clock, analyze_response, calls, batch>>

\* the /timing/analyze route: calculate_score_v3(llm_response), today omitted
AnalyzeProcess ==
    /\ result = None
    /\ LET r == calculate_score_v3(response, None, clock) IN
       /\ result' = Some(r.value)
       /\ returned_at' = r.at
       /\ analyze_response' = Some(AnalyzeResponse(r.value))
    /\ UNCHANGED <<response, today, clock, calls, batch>>

Next == CallWithDate \/ AnalyzeProcess

Spec == Init /\ [][Next]_vars

(***************************************************************************)
(* Repeated calls: the same process serves one request after another while *)
(* the calendar moves on                                                   *)
(***************************************************************************)

MaxCalls == 3

MaxTicks == 1

\* a Constitution case whose markers are 14 days old on the first day of the
\* run, and the Substitution example
FollowedAssessments ==
    { LLMResponseV3("SIM", Some([answer |-> "SIM"]),
          Some(Node3(FormatDate(PlusDays(ClockDate, 0 - 14)),
                     FormatDate(PlusDays(ClockDate, 0 - 14)), Contextos({}))),
          None,
          Some(Node5("5B_CONSTITUICAO", None, Some(Details5B(FALSE, FALSE, FALSE)))),
          VariaveisLLM(FALSE, FALSE)),
      Scenario5A(10) }

\* the reference dates a caller passes
CallerDates == {RefDate, ClockDate}

Invocation(today_arg, value) ==
    [response |-> response, today |-> today_arg, clock |-> clock, value |-> value]

InitCalls ==
    /\ response \in FollowedAssessments
    /\ today = None
    /\ clock = ClockDate
    /\ result = None
    /\ returned_at = "pending"
    /\ analyze_response = None
    /\ calls = <<>>
    /\ batch = Batch(<<>>)

\* calculate_score_v3(response, today), any number of times
CallAgainWithDate ==
    /\ Len(calls) < MaxCalls
    /\ \E t \in CallerDates :
          LET r == calculate_score_v3(response, Some(t), clock) IN
          /\ today' = Some(t)
          /\ result' = Some(r.value)
          /\ returned_at' = r.at
          /\ calls' = Append(calls, Invocation(Some(t), r.value))
    /\ UNCHANGED <<response, clock, analyze_response, batch>>

\* the /timing/analyze route, any number of times
AnalyzeAgain ==
    /\ Len(calls) < MaxCalls
    /\ LET r == calculate_score_v3(response, None, clock) IN
       /\ today' = None
       /\ result' = Some(r.value)
       /\ returned_at' = r.at
       /\ analyze_response' = Some(AnalyzeResponse(r.value))
       /\ calls' = Append(calls, Invocation(None, r.value))
    /\ UNCHANGED <<response, clock, batch>>

\* midnight passes: date.today() returns the next day from now on
Tick ==
    /\ diff_in_days(clock, ClockDate) < MaxTicks
    /\ clock' = PlusDays(clock, 1)
    /\ UNCHANGED <<response, today, result, returned_at, analyze_response, calls, batch>>

\* the next request carries another assessment
NextAssessment ==
    /\ \E a \in FollowedAssessments \ {response} : response' = a
    /\ today' = None
    /\ result' = None
    /\ returned_at' = "pending"
    /\ analyze_response' = None
    /\ UNCHANGED <<clock, calls, batch>>

NextCalls == CallAgainWithDate \/ AnalyzeAgain \/ Tick \/ NextAssessment

SpecCalls == InitCalls /\ [][NextCalls]_vars

(***************************************************************************)
(* routes/timing.py: POST /timing/analyze-batch                            *)
(***************************************************************************)

MaxItems == 3

\* what the agent does for an item: a structured answer with its token usage
\* and cost (in millionths of a dollar), or no structured answer, for which
\* analyze_process raises
AgentOutcomes ==
    { [processo_numero |-> "0001", llm_response |-> Some(Scenario5B(10)),
       tokens_used |-> 3, cost |-> 2],
      [processo_numero |-> "0002", llm_response |-> Some(Scenario5A(10)),
       tokens_used |-> 5, cost |-> 4],
      [processo_numero |-> "0003", llm_response |-> None,
       tokens_used |-> 7, cost |-> 6] }

BatchRequests ==
    UNION {[1..n -> AgentOutcomes] : n \in 0..MaxItems}

AnalyzeBatchItemResult(processo_numero, success, timing_base, score_final, error) ==
    [processo_numero |-> processo_numero, success |-> success,
     timing_base |-> timing_base, score_final |-> score_final, error |-> error]

AnalyzeBatchResponse(b) ==
    [results |-> b.results, total |-> Len(b.items),
     success_count |-> b.success_count, error_count |-> b.error_count,
     total_tokens |-> b.total_tokens, total_cost_usd |-> b.total_cost]

InitBatch ==
    /\ \E items \in BatchRequests : batch = Batch(items)
    /\ response = Scenario5B(10)
    /\ today = None
    /\ clock = ClockDate
    /\ result = None
    /\ returned_at = "pending"
    /\ analyze_response = None
    /\ calls = <<>>

\* the except branch that records the failure and ends the loop
BatchItemFails_aborta ==
    /\ batch.returned = None
    /\ batch.next <= Len(batch.items)
    /\ LET item == batch.items[batch.next] IN
       /\ item.llm_response = None
       /\ batch' = [batch EXCEPT
               !.results = Append(@, AnalyzeBatchItemResult(item.processo_numero, FALSE,
                                                            None, None, Some("500"))),
               !.error_count = @ + 1,
               !.next = Len(batch.items) + 1]
    /\ UNCHANGED <<response, today, clock, result, returned_at, analyze_response, calls>>

\* one turn of the loop in which analyze_process raises: the except branch
BatchItemFails ==
    /\ batch.returned = None
    /\ batch.next <= Len(batch.items)
    /\ LET item == batch.items[batch.next] IN
       /\ item.llm_response = None
       /\ batch' = [batch EXCEPT
               !.results = Append(@, AnalyzeBatchItemResult(item.processo_numero, FALSE,
                                                            None, None, Some("500"))),
               !.error_count = @ + 1,
               !.next = @ + 1]
    /\ UNCHANGED <<response, today, clock, result, returned_at, analyze_response, calls>>

\* one turn of the loop in which analyze_process answers
BatchItemSucceeds ==
    /\ batch.returned = None
    /\ batch.next <= Len(batch.items)
    /\ LET item == batch.items[batch.next] IN
       /\ item.llm_response # None
       /\ LET r == calculate_score_v3(item.llm_response[1], None, clock)
              answer == AnalyzeResponse(r.value)
          IN  /\ response' = item.llm_response[1]
              /\ today' = None
              /\ result' = Some(r.value)
              /\ returned_at' = r.at
              /\ analyze_response' = Some(answer)
              /\ batch' = [batch EXCEPT
                      !.results = Append(@, AnalyzeBatchItemResult(item.processo_numero,
                                     TRUE, Some(answer.timing_base),
                                     Some(answer.score_final), None)),
                      !.total_tokens = @ + item.tokens_used,
                      !.total_cost = @ + item.cost,
                      !.success_count = @ + 1,
                      !.next = @ + 1]
    /\ UNCHANGED <<clock, calls>>

\* the loop is over: return AnalyzeBatchResponse(...)
BatchReturns ==
    /\ batch.returned = None
    /\ batch.next > Len(batch.items)
    /\ batch' = [batch EXCEPT !.returned = Some(AnalyzeBatchResponse(batch))]
    /\ UNCHANGED <<response, today, clock, result, returned_at, analyze_response, calls>>

NextBatch == BatchItemSucceeds \/ BatchItemFails \/ BatchReturns

SpecBatch == InitBatch /\ [][NextBatch]_vars

(***************************************************************************)
(* Properties                                                              *)
(***************************************************************************)

Called == result # None
Breakdown == result[1].score_breakdown
TemporalData == result[1].temporal_data
Resp5 == response.node_5_analise_especifica
Flags == response.variaveis_llm

Occurrences(tag, seq) == Cardinality({i \in 1..Len(seq) : seq[i] = tag})
Has(tag, seq) == Occurrences(tag, seq) > 0

Abs(x) == IF x < 0 THEN 0 - x ELSE x

\* the integer nearest to num / den, the even one of two equally near
NearestTiesEven(num, den) ==
    CHOOSE k \in 0..((num \div den) + 1) :
        \/ 2 * Abs(num - k * den) < den
        \/ 2 * Abs(num - k * den) = den /\ k % 2 = 0

ClampTo(x, lo, hi) == IF x < lo THEN lo ELSE IF x > hi THEN hi ELSE x

\* the base score the specification gives each timing
BaseOf(timing) ==
    IF timing \in {"AGORA_CONSTITUICAO", "AGORA_SUBSTITUICAO"} THEN 9
    ELSE IF timing = "ACOMPANHAR" THEN 6 ELSE 2

\* base - len(penalties) + len(bonuses) of the returned breakdown
RawScore ==
    Breakdown.base - Len(Breakdown.penalty_details) + Len(Breakdown.bonus_details)

Intermediate == ClampTo(RawScore, 0, 10)

\* the breakdown of an exit that scores nothing
PlainBreakdown(timing, base, penalty_details) ==
    [timing_base |-> timing, base |-> base, penalties |-> 0,
     penalty_details |-> penalty_details, bonus |-> 0, bonus_details |-> <<>>,
     grave_multiplier |-> 100, final |-> base]

AnswerNo1 == response.node_1_plausibilidade.answer = "NÃO"
AnswerNo2 ==
    /\ response.node_2_materializacao # None
    /\ response.node_2_materializacao[1].answer = "NÃO"

\* the day offsets of the call, None when they cannot be derived
OffsetsOfCall == calculate_temporal_data(response, today, clock)

\* none of exits 1-4 applies and type_active names the path
OnPath(type_active) ==
    /\ Called
    /\ ~AnswerNo1 /\ ~AnswerNo2
    /\ TemporalData # None
    /\ Resp5 # None
    /\ Resp5[1].type_active = type_active

\* the call ran the rule table of a path: payload present, no early PASSOU
InRules5A ==
    /\ OnPath("5A_SUBSTITUICAO")
    /\ Resp5[1].details_5a # None
    /\ Resp5[1].details_5a[1].tipo_garantia # "seguro_garantia"

InRules5B ==
    /\ OnPath("5B_CONSTITUICAO")
    /\ Resp5[1].details_5b # None
    /\ ~Resp5[1].details_5b[1].processo_encerrado

\* C1: on every exit the returned final is an integer between 0 and 10.
C1_FinalInRange == Called => Breakdown.final \in 0..10

\* a scored call whose raw sum exceeds 10 and is clamped
C1_Witness ==
    /\ OnPath("5B_CONSTITUICAO")
    /\ RawScore > 10
    /\ Breakdown.final = 10

\* C2: after a path scorer, base is the base score of the returned timing (the
\* timing after any downgrade) and final = round(clamp(base - #penalties +
\* #bonuses, 0, 10) * multiplier).
C2_ScoredFinal ==
    (Called /\ returned_at \in {"scoring_5a", "scoring_5b"}) =>
        /\ Breakdown.base = BaseOf(Breakdown.timing_base)
        /\ Breakdown.final =
               NearestTiesEven(Intermediate * Breakdown.grave_multiplier, 100)

\* a substitution call downgraded by a special context, scored with base 6 and
\* the bonus recorded before the downgrade
C2_Witness ==
    /\ Called /\ returned_at = "scoring_5a"
    /\ Has("contexto_especial_presente", Breakdown.penalty_details)
    /\ Has("evidencia_direta_garantia_onerosa", Breakdown.bonus_details)
    /\ Breakdown.timing_base = "ACOMPANHAR"
    /\ Breakdown.base = 6

\* C3: node_1 = NO gives PASSOU, base 2, final 2, nothing recorded, multiplier
\* 1.0 and no temporal data, whatever the other nodes, flags and date.
C3_Node1Nao ==
    (Called /\ AnswerNo1) =>
        result[1] = [score_breakdown |-> PlainBreakdown("PASSOU", 2, <<>>),
                     temporal_data |-> None]

\* node 1 = NO with node 2 = SIM, markers, a node 5 and the flags set
C3_Witness ==
    /\ Called /\ AnswerNo1
    /\ response.node_2_materializacao = Some([answer |-> "SIM"])
    /\ response.node_3_marcos_temporais # None
    /\ Resp5 # None
    /\ Flags.executado_demonstrou_passividade

\* C4: node_1 = YES and node_2 = NO gives ACOMPANHAR, base 6, final 6, nothing
\* recorded, whatever nodes 3-5 and the flags.
C4_Node2Nao ==
    (Called /\ ~AnswerNo1 /\ AnswerNo2) =>
        /\ Breakdown = PlainBreakdown("ACOMPANHAR", 6, <<>>)
        /\ TemporalData = None

\* node 2 = NO with parseable markers and the substitution payload
C4_Witness ==
    /\ Called /\ ~AnswerNo1 /\ AnswerNo2
    /\ OffsetsOfCall # None
    /\ Resp5 # None /\ Resp5[1].type_active = "5A_SUBSTITUICAO"
    /\ Resp5[1].details_5a # None

\* C5: the exits are tested in the order node 1, node 2, temporal data, node 5,
\* dispatch; the first that applies decides, and a path scorer runs only when
\* none of the first four applies.
C5_ExitOrder ==
    Called =>
        LET offsets == OffsetsOfCall
        IN  /\ AnswerNo1 =>
                   returned_at = "node_1_nao" /\ Breakdown.timing_base = "PASSOU"
            /\ (~AnswerNo1 /\ AnswerNo2) =>
                   /\ returned_at = "node_2_nao"
                   /\ Breakdown.penalty_details = <<>>
            /\ (~AnswerNo1 /\ ~AnswerNo2 /\ offsets = None) =>
                   /\ returned_at = "sem_dados_temporais"
                   /\ Breakdown.penalty_details = <<"Sem dados temporais válidos">>
            /\ (~AnswerNo1 /\ ~AnswerNo2 /\ offsets # None /\ Resp5 = None) =>
                   /\ returned_at = "sem_node_5"
                   /\ Breakdown.penalty_details =
                          <<"Sem análise específica (node 5)">>
            /\ returned_at \in {"scoring_5a", "scoring_5b"} =>
                   ~AnswerNo1 /\ ~AnswerNo2 /\ offsets # None /\ Resp5 # None

\* unparseable dates and no node 5 at once: the temporal exit decides
C5_Witness ==
    /\ Called /\ ~AnswerNo1 /\ ~AnswerNo2
    /\ response.node_3_marcos_temporais # None
    /\ OffsetsOfCall = None
    /\ Resp5 = None
    /\ returned_at = "sem_dados_temporais"

\* a marker date that is empty, of another shape, or no calendar date
BadMarker(marco) == marco.data \in BadDates

C7_Node5Fallbacks ==
    (/\ Called /\ ~AnswerNo1 /\ ~AnswerNo2
     /\ \/ Resp5 = None
        \/ Resp5[1].type_active \notin {"5A_SUBSTITUICAO", "5B_CONSTITUICAO"}
     /\ OffsetsOfCall # None) =>
        /\ Breakdown =
               PlainBreakdown("ACOMPANHAR", 6,
                   IF Resp5 = None THEN <<"Sem análise específica (node 5)">>
                   ELSE <<"Tipo de análise inválido: " \o Resp5[1].type_active>>)
        /\ TemporalData # None
        /\ TemporalData = OffsetsOfCall

\* an unknown type_active with parseable markers
C7_Witness ==
    /\ Called /\ ~AnswerNo1 /\ ~AnswerNo2
    /\ Resp5 # None /\ Resp5[1].type_active = "5C_OUTRO"
    /\ TemporalData # None
    /\ Breakdown.penalty_details = <<"Tipo de análise inválido: 5C_OUTRO">>

\* C8: on the substitution path seguro_garantia gives PASSOU with no penalty
\* and no bonus, whatever garantia_onerosa, node 4 and the offsets.
C8_SeguroGarantia ==
    (/\ OnPath("5A_SUBSTITUICAO")
     /\ Resp5[1].details_5a # None
     /\ Resp5[1].details_5a[1].tipo_garantia = "seguro_garantia") =>
        /\ Breakdown.timing_base = "PASSOU"
        /\ Breakdown.penalty_details = <<>>
        /\ Breakdown.bonus_details = <<>>

\* seguro_garantia with everything that would otherwise be recorded: onerous,
\* node 4 uncertain by silence, an old marker, a special context, passivity
C8_Witness ==
    /\ OnPath("5A_SUBSTITUICAO")
    /\ Resp5[1].details_5a # None
    /\ Resp5[1].details_5a[1].tipo_garantia = "seguro_garantia"
    /\ Resp5[1].details_5a[1].garantia_onerosa
    /\ response.node_4_garantia_existente =
           Some([answer |-> "INCERTO", inference_basis |-> "silencio"])
    /\ TemporalData[1].dias_desde_marco_mais_recente > 180
    /\ TemporalData[1].dias_desde_marco_primario > 365
    /\ Flags.executado_demonstrou_passividade
    /\ response.node_3_marcos_temporais[1].contextos_especiais.recuperacao_judicial

\* C9: on the constitution path processo_encerrado gives PASSOU with empty
\* penalty and bonus lists, final 2 and multiplier 1.0, whatever the threat,
\* executado_ativo, the special contexts, the passivity flag and the offsets.
C9_ProcessoEncerrado ==
    (/\ OnPath("5B_CONSTITUICAO")
     /\ Resp5[1].details_5b # None
     /\ Resp5[1].details_5b[1].processo_encerrado) =>
        /\ Breakdown.timing_base = "PASSOU"
        /\ Breakdown.penalty_details = <<>>
        /\ Breakdown.bonus_details = <<>>
        /\ Breakdown.final = 2
        /\ Breakdown.grave_multiplier = 100

\* a closed case with a threat, an active debtor, a special context, passivity
\* and old markers
C9_Witness ==
    /\ OnPath("5B_CONSTITUICAO")
    /\ Resp5[1].details_5b # None
    /\ Resp5[1].details_5b[1].processo_encerrado
    /\ Resp5[1].details_5b[1].ameaca_constricao_iminente
    /\ Resp5[1].details_5b[1].executado_ativo
    /\ response.node_3_marcos_temporais[1].contextos_especiais.falencia_devedor
    /\ Flags.executado_demonstrou_passividade
    /\ TemporalData[1].dias_desde_marco_primario > 365
    /\ TemporalData[1].dias_desde_marco_mais_recente > 180

PassivityInput ==
    /\ Called /\ TemporalData # None
    /\ TemporalData[1].dias_desde_marco_primario > 365
    /\ Flags.executado_demonstrou_passividade

\* C10 as claimed: every input with a primary marker over 365 days old and the
\* passivity flag gets multiplier 0.75, final = round(intermediate * 0.75) and
\* the passivity penalty once.
C10_PassivityAnyInput ==
    PassivityInput =>
        /\ Breakdown.grave_multiplier = 75
        /\ Breakdown.final = NearestTiesEven(Intermediate * 75, 100)
        /\ Occurrences("passividade_historica_cliente", Breakdown.penalty_details) = 1

\* C10: a call that runs the rule table of a path (payload present, guarantee
\* not seguro_garantia, case not closed) with a primary marker over 365 days
\* old and the passivity flag gets multiplier 0.75, final = round(intermediate
\* * 0.75) and the passivity penalty once; every other call (365 days or less,
\* flag false, or any other exit) gets multiplier 1.0 and no passivity penalty.
C10_PassivityInRules ==
    Called =>
        IF (InRules5A \/ InRules5B) /\ PassivityInput
        THEN /\ Breakdown.grave_multiplier = 75
             /\ Breakdown.final = NearestTiesEven(Intermediate * 75, 100)
             /\ Occurrences("passividade_historica_cliente",
                            Breakdown.penalty_details) = 1
        ELSE /\ Breakdown.grave_multiplier = 100
             /\ ~Has("passividade_historica_cliente", Breakdown.penalty_details)

\* passivity applied the day after the threshold, on an intermediate of 6
C10_Witness ==
    /\ InRules5B
    /\ TemporalData[1].dias_desde_marco_primario = 366
    /\ Flags.executado_demonstrou_passividade
    /\ Breakdown.grave_multiplier = 75
    /\ Intermediate = 6
    /\ Breakdown.final = 4


\* C11: in every ScoreBreakdown that calculate_score_v3 returns, the diagnostic
\* fallbacks included, penalties is minus the number of penalty_details and
\* bonus is the number of bonus_details.
C11_CountersAgree ==
    Called =>
        /\ Breakdown.penalties = 0 - Len(Breakdown.penalty_details)
        /\ Breakdown.bonus = Len(Breakdown.bonus_details)


\* two invocations with the same assessment and the same `today` argument
SameInput(i, j) ==
    /\ calls[i].response = calls[j].response
    /\ calls[i].today = calls[j].today

\* C12: the engine never reads the process-wide clock: on every call path, the
\* route's included, two calls on the same assessment at different wall-clock
\* times return the same day offsets and the same score.
C12_ClockIndependent ==
    \A i, j \in 1..Len(calls) :
        SameInput(i, j) => calls[i].value = calls[j].value

ExactlyDDMMYYYY(s) ==
    /\ Len(s) = 10
    /\ s[3] = "/" /\ s[6] = "/"
    /\ \A i \in {1, 2, 4, 5, 7, 8, 9, 10} : s[i] \in DigitChars

MarkersOfCall == response.node_3_marcos_temporais[1]

\* C14: a marker date string that is not exactly in DD/MM/YYYY form (one-digit
\* day or month, two-digit year, parts padded with spaces or signed) never
\* produces day offsets: the call takes the no-temporal-data fallback.
C14_StrictFormat ==
    (/\ Called /\ ~AnswerNo1 /\ ~AnswerNo2
     /\ response.node_3_marcos_temporais # None
     /\ \/ ~ExactlyDDMMYYYY(MarkersOfCall.marco_primario.data)
        \/ ~ExactlyDDMMYYYY(MarkersOfCall.marco_mais_recente.data))
    => /\ TemporalData = None
       /\ returned_at = "sem_dados_temporais"


\* the call was dispatched to a path scorer whose detail payload is absent
MissingPayload ==
    \/ OnPath("5A_SUBSTITUICAO") /\ Resp5[1].details_5a = None
    \/ OnPath("5B_CONSTITUICAO") /\ Resp5[1].details_5b = None

\* C15: a path scorer whose required detail payload is absent is surfaced as a
\* defect: no call on such an assessment returns a ScoreBreakdown.
C15_MissingPayloadIsDefect == ~MissingPayload


\* the three legacy labels, by verdict
LegacyLabel(timing) ==
    CASE timing = "AGORA_CONSTITUICAO" -> "AGORA"
      [] timing = "AGORA_SUBSTITUICAO" -> "AGORA"
      [] timing = "ACOMPANHAR" -> "ACOMPANHAR"
      [] timing = "PASSOU" -> "PASSOU"

\* C16: in a response of /timing/analyze, diagnostico_timing is AGORA for both
\* AGORA verdicts, ACOMPANHAR for ACOMPANHAR and PASSOU for PASSOU, while
\* timing_base is the engine's verdict with the two AGORA variants distinct.
C16_LegacyLabel ==
    analyze_response # None =>
        /\ analyze_response[1].timing_base = Breakdown.timing_base
        /\ analyze_response[1].timing_base \in TimingBase
        /\ analyze_response[1].diagnostico_timing = LegacyLabel(Breakdown.timing_base)
        /\ analyze_response[1].diagnostico_timing \in {"AGORA", "ACOMPANHAR", "PASSOU"}

\* the route answered a Substitution verdict with the common label
C16_Witness ==
    /\ analyze_response # None
    /\ analyze_response[1].timing_base = "AGORA_SUBSTITUICAO"
    /\ analyze_response[1].diagnostico_timing = "AGORA"


\* the place of each tag in the rule order of its list, 0 for a tag that does
\* not belong to the list; alternatives of one rule share a place
Rank5APenalty(tag) ==
    CASE tag = "tipo_garantia_desconhecido" -> 1
      [] tag = "garantia_provavel_nao_confirmada" -> 2
      [] tag = "garantia_incerta" -> 2
      [] tag = "garantia_inferida_silencio" -> 3
      [] tag = "marco_acima_90_dias" -> 4
      [] tag = "marco_acima_180_dias" -> 5
      [] tag = "contexto_especial_presente" -> 6
      [] tag = "passividade_historica_cliente" -> 7
      [] OTHER -> 0

Rank5BPenalty(tag) ==
    CASE tag = "marco_acima_60_dias" -> 1
      [] tag = "marco_acima_90_dias" -> 1
      [] tag = "marco_acima_180_dias" -> 2
      [] tag = "contexto_especial_presente" -> 3
      [] tag = "passividade_historica_cliente" -> 4
      [] OTHER -> 0

Rank5BBonus(tag) ==
    CASE tag = "marco_recente_15_dias" -> 1
      [] tag = "ameaca_constricao_iminente" -> 2
      [] tag = "executado_ativo" -> 3
      [] OTHER -> 0

\* every tag belongs to the list and the places strictly increase: a
\* subsequence of the rule order, no tag twice, no two alternatives together
InRuleOrder(seq, Rank(_)) ==
    /\ \A k \in 1..Len(seq) : Rank(seq[k]) > 0
    /\ \A k \in 1..(Len(seq) - 1) : Rank(seq[k]) < Rank(seq[k + 1])

\* C17: within one call tags appear in the fixed rule order and never twice:
\* Substitution penalties, Constitution penalties and Constitution bonuses are
\* each a subsequence of the rule order of their list.
C17_TagOrder ==
    /\ OnPath("5A_SUBSTITUICAO") =>
           InRuleOrder(Breakdown.penalty_details, Rank5APenalty)
    /\ OnPath("5B_CONSTITUICAO") =>
           /\ InRuleOrder(Breakdown.penalty_details, Rank5BPenalty)
           /\ InRuleOrder(Breakdown.bonus_details, Rank5BBonus)

\* a Substitution call where all seven rules recorded a penalty
C17_Witness ==
    /\ OnPath("5A_SUBSTITUICAO")
    /\ Len(Breakdown.penalty_details) = 7


Details5AOfCall == Resp5[1].details_5a[1]

\* onerous and one of the six types that insurance can replace
DirectEvidence ==
    /\ Details5AOfCall.garantia_onerosa
    /\ Details5AOfCall.tipo_garantia \in
           {"deposito_judicial", "penhora_dinheiro", "penhora_bens_moveis",
            "penhora_bens_imoveis", "fianca_bancaria", "caucao_real"}

SpecialContext ==
    \E c \in {"recuperacao_judicial", "falencia_devedor", "acordo_em_negociacao",
               "processo_suspenso"} : MarkersOfCall.contextos_especiais[c]

\* C18: on the Substitution path with a type other than seguro_garantia the
\* initial verdict is AGORA_SUBSTITUICAO with the direct-evidence bonus iff the
\* guarantee is onerous and of a substitutable type, otherwise ACOMPANHAR, with
\* the type-unknown penalty iff the type is indefinido; the verdict stays
\* unless a special context downgrades it. The bank guaranty example (onerous,
\* node 4 = SIM, markers 10 days old) ends AGORA_SUBSTITUICAO with final 10.
C18_InitialVerdict5A ==
    /\ InRules5A =>
          /\ Breakdown.bonus_details =
                 IF DirectEvidence THEN <<"evidencia_direta_garantia_onerosa">> ELSE <<>>
          /\ Breakdown.timing_base =
                 IF DirectEvidence /\ ~SpecialContext
                 THEN "AGORA_SUBSTITUICAO" ELSE "ACOMPANHAR"
          /\ Has("tipo_garantia_desconhecido", Breakdown.penalty_details)
                 <=> Details5AOfCall.tipo_garantia = "indefinido"
          /\ Details5AOfCall.tipo_garantia = "indefinido" =>
                 Breakdown.penalty_details[1] = "tipo_garantia_desconhecido"
    /\ Called /\ response = Guaranty10 =>
          /\ Breakdown.timing_base = "AGORA_SUBSTITUICAO"
          /\ Breakdown.penalty_details = <<>>
          /\ Breakdown.base = 9
          /\ Breakdown.final = 10

\* the bank guaranty example scored ten days after its markers
C18_Witness ==
    /\ Called
    /\ response = Guaranty10
    /\ TemporalData = Some([dias_desde_marco_primario |-> 10,
                            dias_desde_marco_mais_recente |-> 10])
    /\ Breakdown.timing_base = "AGORA_SUBSTITUICAO"
    /\ Breakdown.final = 10


Node4OfCall == response.node_4_garantia_existente

Count(cond) == IF cond THEN 1 ELSE 0

\* C19: on the Substitution path node 4 adds penalties only when present:
\* PROVAVELMENTE_SIM adds the probable tag, INCERTO the uncertain tag, never
\* both, and the silence tag is added once when inference_basis is silencio or
\* the auxiliary flag is set; with node 4 absent none of the three is added,
\* whatever the flag.
C19_Node4Penalties ==
    InRules5A =>
        LET pd == Breakdown.penalty_details IN
        IF Node4OfCall = None
        THEN /\ ~Has("garantia_provavel_nao_confirmada", pd)
             /\ ~Has("garantia_incerta", pd)
             /\ ~Has("garantia_inferida_silencio", pd)
        ELSE /\ Occurrences("garantia_provavel_nao_confirmada", pd) =
                    Count(Node4OfCall[1].answer = "PROVAVELMENTE_SIM")
             /\ Occurrences("garantia_incerta", pd) =
                    Count(Node4OfCall[1].answer = "INCERTO")
             /\ Occurrences("garantia_inferida_silencio", pd) =
                    Count(\/ Node4OfCall[1].inference_basis = "silencio"
                          \/ Flags.garantia_inferida_silencio)

\* node 4 says probably, inferred from silence, and the flag says so too
C19_Witness ==
    /\ InRules5A
    /\ Node4OfCall # None
    /\ Node4OfCall[1].answer = "PROVAVELMENTE_SIM"
    /\ Node4OfCall[1].inference_basis = "silencio"
    /\ Flags.garantia_inferida_silencio
    /\ Occurrences("garantia_inferida_silencio", Breakdown.penalty_details) = 1
    /\ Has("garantia_provavel_nao_confirmada", Breakdown.penalty_details)


DiasRecenteOfCall == TemporalData[1].dias_desde_marco_mais_recente

\* C20: on the Substitution path the marker-age penalties are cumulative with
\* strict thresholds: up to 90 days none, 91 to 180 the over-90 tag alone, over
\* 180 both, the over-180 tag always right after the over-90 tag; and the
\* verdict is the one the guarantee and the special contexts give, whatever
\* the age of the marker.
C20_MarkerAge5A ==
    InRules5A =>
        LET pd == Breakdown.penalty_details IN
        /\ Occurrences("marco_acima_90_dias", pd) = Count(DiasRecenteOfCall > 90)
        /\ Occurrences("marco_acima_180_dias", pd) = Count(DiasRecenteOfCall > 180)
        /\ \A k \in 1..Len(pd) :
              pd[k] = "marco_acima_180_dias" =>
                  k > 1 /\ pd[k - 1] = "marco_acima_90_dias"
        /\ Breakdown.timing_base = "AGORA_SUBSTITUICAO" <=>
              DirectEvidence /\ ~SpecialContext

\* a marker exactly 180 days old: the over-90 tag alone, verdict still AGORA
C20_Witness ==
    /\ InRules5A
    /\ DiasRecenteOfCall = 180
    /\ Has("marco_acima_90_dias", Breakdown.penalty_details)
    /\ ~Has("marco_acima_180_dias", Breakdown.penalty_details)
    /\ Breakdown.timing_base = "AGORA_SUBSTITUICAO"


Details5BOfCall == Resp5[1].details_5b[1]

\* C21: on both paths, past the early exits, any of the four special contexts
\* records the special-context penalty exactly once, however many are
\* detected, and the verdict returned is ACOMPANHAR with base 6, the bonuses
\* of the rules before it kept; without one the penalty is absent. No
\* breakdown at all has an AGORA verdict together with the tag.
C21_SpecialContext ==
    /\ (InRules5A \/ InRules5B) =>
          LET n == Occurrences("contexto_especial_presente", Breakdown.penalty_details)
          IN  IF SpecialContext
              THEN /\ n = 1
                   /\ Breakdown.timing_base = "ACOMPANHAR"
                   /\ Breakdown.base = 6
              ELSE n = 0
    /\ InRules5A /\ SpecialContext =>
          (Has("evidencia_direta_garantia_onerosa", Breakdown.bonus_details)
              <=> DirectEvidence)
    /\ InRules5B /\ SpecialContext =>
          /\ Has("marco_recente_15_dias", Breakdown.bonus_details)
                 <=> DiasRecenteOfCall < 15
          /\ Has("ameaca_constricao_iminente", Breakdown.bonus_details)
                 <=> Details5BOfCall.ameaca_constricao_iminente
    /\ Called =>
          ~(/\ Breakdown.timing_base \in {"AGORA_CONSTITUICAO", "AGORA_SUBSTITUICAO"}
            /\ Has("contexto_especial_presente", Breakdown.penalty_details))

\* a fresh marker and a threat, two contexts detected: one penalty, both
\* bonuses kept, verdict ACOMPANHAR
C21_Witness ==
    /\ InRules5B
    /\ MarkersOfCall.contextos_especiais.recuperacao_judicial
    /\ MarkersOfCall.contextos_especiais.processo_suspenso
    /\ DiasRecenteOfCall < 15
    /\ Details5BOfCall.ameaca_constricao_iminente
    /\ Breakdown.timing_base = "ACOMPANHAR"
    /\ Breakdown.bonus_details[1] = "marco_recente_15_dias"
    /\ Occurrences("contexto_especial_presente", Breakdown.penalty_details) = 1


\* the verdict returned for a bucket verdict: a special context turns AGORA
\* into ACOMPANHAR, nothing else changes it
AfterContext(bucket) == IF SpecialContext THEN "ACOMPANHAR" ELSE bucket

Ameaca == Details5BOfCall.ameaca_constricao_iminente

\* the marker-age penalties of a breakdown, in order
AgePenalties ==
    SelectSeq(Breakdown.penalty_details,
              LAMBDA t : t \in {"marco_acima_60_dias", "marco_acima_90_dias",
                                "marco_acima_180_dias"})

\* C22: on the Constitution path, case open and dias < 60, the bucket verdict
\* is AGORA_CONSTITUICAO with or without a threat; the within-15-days bonus is
\* recorded for every dias < 15, negative ones included, and not from 15 on;
\* the threat bonus is recorded iff the threat flag is set. The example with
\* both markers 10 days old returns AGORA_CONSTITUICAO, base 9, final 10.
C22_ActiveWindow5B ==
    /\ InRules5B /\ DiasRecenteOfCall < 60 =>
          /\ Breakdown.timing_base = AfterContext("AGORA_CONSTITUICAO")
          /\ Occurrences("marco_recente_15_dias", Breakdown.bonus_details) =
                 Count(DiasRecenteOfCall < 15)
          /\ Occurrences("ameaca_constricao_iminente", Breakdown.bonus_details) =
                 Count(Ameaca)
          /\ AgePenalties = <<>>
    /\ Called /\ response = Bond10 =>
          /\ Breakdown.timing_base = "AGORA_CONSTITUICAO"
          /\ Breakdown.bonus_details = <<"marco_recente_15_dias">>
          /\ Breakdown.penalty_details = <<>>
          /\ Breakdown.base = 9
          /\ RawScore = 10
          /\ Breakdown.final = 10

\* day 15 without a threat: still AGORA_CONSTITUICAO, no bonus
C22_Witness ==
    /\ InRules5B
    /\ DiasRecenteOfCall = 15
    /\ ~Ameaca
    /\ Breakdown.timing_base = "AGORA_CONSTITUICAO"
    /\ ~Has("marco_recente_15_dias", Breakdown.bonus_details)

\* C23: on the Constitution path, case open and 60 <= dias < 90: with a threat
\* the bucket verdict is AGORA_CONSTITUICAO with the threat bonus and no
\* marker-age penalty; without one it is ACOMPANHAR with the single penalty
\* over 60 days.
C23_Days60To89 ==
    InRules5B /\ DiasRecenteOfCall >= 60 /\ DiasRecenteOfCall < 90 =>
        /\ ~Has("marco_recente_15_dias", Breakdown.bonus_details)
        /\ IF Ameaca
           THEN /\ Breakdown.timing_base = AfterContext("AGORA_CONSTITUICAO")
                /\ Occurrences("ameaca_constricao_iminente", Breakdown.bonus_details) = 1
                /\ AgePenalties = <<>>
           ELSE /\ Breakdown.timing_base = "ACOMPANHAR"
                /\ ~Has("ameaca_constricao_iminente", Breakdown.bonus_details)
                /\ AgePenalties = <<"marco_acima_60_dias">>

\* day 60 without a threat: ACOMPANHAR with the over-60 penalty
C23_Witness ==
    /\ InRules5B
    /\ DiasRecenteOfCall = 60
    /\ ~Ameaca
    /\ Breakdown.timing_base = "ACOMPANHAR"
    /\ Breakdown.penalty_details[1] = "marco_acima_60_dias"

Bucket5B ==
    IF DiasRecenteOfCall < 60 \/ Ameaca THEN "AGORA_CONSTITUICAO" ELSE "ACOMPANHAR"

\* C25: on the Constitution path with the case open, executado_ativo adds the
\* active-debtor bonus exactly once in every bucket, also after a
\* special-context downgrade, always as the last bonus, and without it the
\* bonus is absent; the verdict is the one of the bucket and the contexts
\* whatever the flag.
C25_ExecutadoAtivo ==
    InRules5B =>
        LET bd == Breakdown.bonus_details IN
        /\ Occurrences("executado_ativo", bd) = Count(Details5BOfCall.executado_ativo)
        /\ Details5BOfCall.executado_ativo => bd[Len(bd)] = "executado_ativo"
        /\ Breakdown.timing_base = AfterContext(Bucket5B)

\* an active debtor in a case downgraded by a special context, after the two
\* bonuses of the table
C25_Witness ==
    /\ InRules5B
    /\ SpecialContext
    /\ Details5BOfCall.executado_ativo
    /\ Breakdown.timing_base = "ACOMPANHAR"
    /\ Breakdown.bonus_details =
           <<"marco_recente_15_dias", "ameaca_constricao_iminente", "executado_ativo">>


\* final for intermediate 0..10 under the passivity multiplier
RoundedAt75 == <<0, 1, 2, 2, 3, 4, 4, 5, 6, 7, 8>>

\* round gives exactly the listed values for the intermediates 0..10 at 0.75
RoundsAt75 == \A i \in 0..10 : PyRound(i * 75, 100) = RoundedAt75[i + 1]

\* C26: the final rounding is to the nearest integer with ties to even: under
\* multiplier 0.75 the intermediates 0..10 give 0,1,2,2,3,4,4,5,6,7,8, so an
\* intermediate of 6 gives 4 (not 5), 2 gives 2 and 10 gives 8.
C26_RoundHalfEven ==
    /\ RoundsAt75
    /\ Called /\ Breakdown.grave_multiplier = 75 =>
          Breakdown.final = RoundedAt75[Intermediate + 1]

\* the tie: an intermediate of 6 under the passivity multiplier returns 4
C26_Witness ==
    /\ Called
    /\ Breakdown.grave_multiplier = 75
    /\ Intermediate = 6
    /\ Breakdown.final = 4


\* the call ended at a short-circuit, at a fallback or at an early PASSOU of a
\* path scorer
EarlyExit ==
    \/ returned_at \in {"node_1_nao", "node_2_nao", "sem_dados_temporais",
                        "sem_node_5", "type_active_invalido"}
    \/ /\ OnPath("5A_SUBSTITUICAO")
       /\ Resp5[1].details_5a # None
       /\ Details5AOfCall.tipo_garantia = "seguro_garantia"
    \/ /\ OnPath("5B_CONSTITUICAO")
       /\ Resp5[1].details_5b # None
       /\ Details5BOfCall.processo_encerrado

\* C27: in every returned breakdown grave_multiplier is 1.0 or 0.75, and 0.75
\* exactly when the passivity tag is among the penalties; the tag occurs at
\* most once and is then the last penalty. Every short-circuit, fallback and
\* early-PASSOU exit returns multiplier 1.0.
C27_MultiplierAndTag ==
    Called =>
        LET pd == Breakdown.penalty_details IN
        /\ Breakdown.grave_multiplier \in {100, 75}
        /\ Breakdown.grave_multiplier = 75 <=> Has("passividade_historica_cliente", pd)
        /\ Occurrences("passividade_historica_cliente", pd) <= 1
        /\ Has("passividade_historica_cliente", pd) =>
              pd[Len(pd)] = "passividade_historica_cliente"
        /\ EarlyExit => Breakdown.grave_multiplier = 100

\* the passivity tag after two other penalties, multiplier 0.75
C27_Witness ==
    /\ Called
    /\ Breakdown.grave_multiplier = 75
    /\ Len(Breakdown.penalty_details) = 3
    /\ Breakdown.penalty_details[3] = "passividade_historica_cliente"


Flip(answer) == IF answer = "SIM" THEN "NÃO" ELSE "SIM"

\* the assessment with one group of unread fields changed: the appellate-phase
\* and multiple-defendants contexts, the renewal marker and the activity after
\* the marker, is_candidate and the posting date, the two unused flags
OtherContexts(resp) ==
    IF resp.node_3_marcos_temporais = None THEN resp
    ELSE [resp EXCEPT
            !.node_3_marcos_temporais[1].contextos_especiais.fase_recursal = ~@,
            !.node_3_marcos_temporais[1].contextos_especiais.multiplos_reus = ~@]

OtherRenewal(resp) ==
    IF resp.node_3_marcos_temporais = None THEN resp
    ELSE [resp EXCEPT
            !.node_3_marcos_temporais[1].marco_renovacao =
                IF @ = None THEN Some([data |-> DayBefore]) ELSE None,
            !.node_3_marcos_temporais[1].atividade_pos_marco =
                IF @ = "rotineira" THEN "relevante" ELSE "rotineira"]

OtherCandidate5A(resp) ==
    IF resp.node_5_analise_especifica[1].details_5a = None THEN resp
    ELSE [resp EXCEPT
            !.node_5_analise_especifica[1].details_5a[1].is_candidate = Flip(@),
            !.node_5_analise_especifica[1].details_5a[1].data_oferecimento_garantia =
                IF @ = None THEN Some(DayBefore) ELSE None]

OtherCandidate5B(resp) ==
    IF resp.node_5_analise_especifica[1].details_5b = None THEN resp
    ELSE [resp EXCEPT
            !.node_5_analise_especifica[1].details_5b[1].is_candidate = Flip(@)]

OtherCandidate(resp) ==
    IF resp.node_5_analise_especifica = None THEN resp
    ELSE OtherCandidate5B(OtherCandidate5A(resp))

OtherFlags(resp) ==
    [resp EXCEPT !.variaveis_llm.tipo_garantia_desconhecido = ~@,
                 !.variaveis_llm.evidencia_direta_garantia_onerosa = ~@]

SameScore(other) ==
    calculate_score_v3(other, today, clock).value.score_breakdown = Breakdown

\* C28: the result does not depend on the fields the rules never read: the
\* same call on an assessment that differs only in the appellate-phase or
\* multiple-defendants contexts, the renewal marker, the activity after the
\* marker, is_candidate of either payload, the posting date of the guarantee
\* or the flags tipo_garantia_desconhecido and
\* evidencia_direta_garantia_onerosa returns the same ScoreBreakdown.
C28_UnreadFields ==
    Called =>
        /\ SameScore(OtherContexts(response))
        /\ SameScore(OtherRenewal(response))
        /\ SameScore(OtherCandidate(response))
        /\ SameScore(OtherFlags(response))

\* an assessment that says "not a candidate" classified AGORA_SUBSTITUICAO
C28_Witness ==
    /\ InRules5A
    /\ Details5AOfCall.is_candidate = "NÃO"
    /\ Flags.tipo_garantia_desconhecido
    /\ MarkersOfCall.marco_renovacao # None
    /\ Breakdown.timing_base = "AGORA_SUBSTITUICAO"
    /\ Breakdown.final = 10
    /\ SameScore(Guaranty10)


\* what the same call returns for the assessment without node 4
WithoutNode4 ==
    calculate_score_v3([response EXCEPT !.node_4_garantia_existente = None],
                       today, clock).value.score_breakdown

\* node 4 says that no guarantee exists, and nothing points to silence
SaysNoGuarantee ==
    /\ Node4OfCall # None
    /\ Node4OfCall[1].answer \in {"NÃO", "PROVAVELMENTE_NAO"}
    /\ Node4OfCall[1].inference_basis # "silencio"
    /\ ~Flags.garantia_inferida_silencio

\* C29: on the Substitution path node 4 never changes timing_base: the verdict
\* is the one the same assessment gets without node 4, whatever node 4
\* answers; the answers NÃO and PROVAVELMENTE_NAO add no penalty. The
\* Substitution path never returns AGORA_CONSTITUICAO and the Constitution
\* path never returns AGORA_SUBSTITUICAO.
C29_Node4KeepsVerdict ==
    /\ OnPath("5A_SUBSTITUICAO") =>
          LET without == WithoutNode4
          IN  /\ Breakdown.timing_base = without.timing_base
              /\ Breakdown.timing_base # "AGORA_CONSTITUICAO"
              /\ SaysNoGuarantee => Breakdown = without
    /\ OnPath("5B_CONSTITUICAO") => Breakdown.timing_base # "AGORA_SUBSTITUICAO"

\* node 4 answers that there is no guarantee and the verdict is
\* AGORA_SUBSTITUICAO with final 10
C29_Witness ==
    /\ InRules5A
    /\ SaysNoGuarantee
    /\ Node4OfCall[1].answer = "NÃO"
    /\ Breakdown.timing_base = "AGORA_SUBSTITUICAO"
    /\ Breakdown.final = 10


RECURSIVE SumOver(_, _, _)
SumOver(items, Weight(_), n) ==
    IF n = 0 THEN 0 ELSE SumOver(items, Weight, n - 1) + Weight(items[n])

Succeeds(item) == item.llm_response # None

TokensCounted(item) == IF Succeeds(item) THEN item.tokens_used ELSE 0

CostCounted(item) == IF Succeeds(item) THEN item.cost ELSE 0

\* C30: analyze_batch handles the items one after another in request order
\* and a failing item never ends the batch: the response has one result per
\* item in input order, success_count + error_count = total = number of
\* items, success_count counts the results with success = true, and only the
\* successful items are added to total_tokens and total_cost_usd.
C30_BatchTotals ==
    batch.returned # None =>
        LET out == batch.returned[1]
            n == Len(batch.items)
        IN  /\ Len(out.results) = n
            /\ \A i \in 1..n :
                  /\ out.results[i].processo_numero = batch.items[i].processo_numero
                  /\ out.results[i].success = Succeeds(batch.items[i])
            /\ out.total = n
            /\ out.success_count + out.error_count = out.total
            /\ out.success_count =
                  Cardinality({i \in 1..n : out.results[i].success})
            /\ out.total_tokens = SumOver(batch.items, TokensCounted, n)
            /\ out.total_cost_usd = SumOver(batch.items, CostCounted, n)

\* a batch whose first item fails and whose later items are answered
C30_Witness ==
    /\ batch.returned # None
    /\ Len(batch.items) = 3
    /\ ~Succeeds(batch.items[1])
    /\ Succeeds(batch.items[2]) /\ Succeeds(batch.items[3])
    /\ batch.returned[1].success_count = 2
    /\ batch.returned[1].error_count = 1
    /\ batch.returned[1].results[3].success

====
